---- MODULE Spec2Model ----
(***************************************************************************)
(* The synchronization coordinator of git-auto-commit (src/index.js,       *)
(* lines 1-425): the StateManager, the debounce timer batchTimer, the      *)
(* periodic pull interval, and the two asynchronous procedures             *)
(* batchedCommit and pullUpdates.                                          *)
(*                                                                         *)
(* Node runs every callback to its next await without interruption, so a  *)
(* step of the model is one callback: a change event, a timer expiry, a   *)
(* pull tick, or the continuation of an asynchronous procedure after the  *)
(* git calls of one block of its code have returned.  The git calls of a  *)
(* block read and write no coordinator variable, so other callbacks that  *)
(* run between two awaits of the same block commute with them; their      *)
(* results (success, failure, reported status) are inputs drawn with \E.  *)
(*                                                                         *)
(* Time is counted in ticks of TickMs milliseconds.  A timeout carries    *)
(* the number of ticks left until it expires and expires before the clock *)
(* advances past its deadline.                                             *)
(***************************************************************************)
EXTENDS Naturals, Integers, FiniteSets, Sequences, Bags

\* Number of submodules of the watched repository (.gitmodules entries).
NumSubmodules == 2

\* Bound on the scheduled work: invocations of batchedCommit or pullUpdates
\* that are in flight plus timeouts that are armed and not yet expired.
MaxInFlight == 2

BATCH_INTERVAL_MS == 60000
PULL_INTERVAL_MS == 60000

\* Resolution of the model clock: half a batch interval.
TickMs == BATCH_INTERVAL_MS \div 2
BatchTicks == BATCH_INTERVAL_MS \div TickMs
PullTicks == PULL_INTERVAL_MS \div TickMs

VARIABLES
    currentState,   \* StateManager.currentState
    batchTimer,     \* the handle batchTimer and the Timeout it refers to
    detached,       \* bag of armed Timeouts that no variable refers to any more
    pullTimer,      \* ticks until the pull interval fires next; -1 before it is set
    inFlight,       \* bag of the invocations of batchedCommit/pullUpdates in flight
    sinceChange,    \* ticks since the most recent change event (saturates)
    burstMoved,     \* the clock has advanced since the first event of the burst
    burstCycles,    \* cycles started for the current burst (saturates at 2)
    changeSinceCycle, \* a change event occurred after the last cycle start
    pendingChanges, \* the flag pendingChanges of src/unnamed/part_000
    unserved,       \* part_000: a change event arrived while a batchedCommit was
                    \* in flight, and no batchedCommit has passed the
                    \* pendingChanges guard since
    retryDue,       \* a Pull Cycle whose superproject pull failed has completed,
                    \* and neither a change event nor a pull tick came since
    lastOp          \* the callback that ran last, and its outcome

vars == <<currentState, batchTimer, detached, pullTimer, inFlight,
          sinceChange, burstMoved, burstCycles, changeSinceCycle, retryDue,
          pendingChanges, unserved, lastOp>>

\* The variables that only the variant of src/unnamed/part_000 uses.
flagVars == <<pendingChanges, unserved>>

States == {"idle", "pending", "committing", "pulling", "blocked", "error"}

\* ------------------------------------------------------------------ timers
\* let batchTimer = null
NullTimer == [handle |-> "null", armed |-> FALSE, rem |-> 0]
\* a Timeout that has expired or was cleared: the handle is still truthy
SpentTimer == [handle |-> "timeout", armed |-> FALSE, rem |-> 0]
\* setTimeout(batchedCommit, BATCH_INTERVAL_MS)
SetTimeout == [handle |-> "timeout", armed |-> TRUE, rem |-> BatchTicks]

Min(a, b) == IF a < b THEN a ELSE b

\* Number of Timeouts that are armed and not yet expired.
Outstanding == BagCardinality(detached) + (IF batchTimer.armed THEN 1 ELSE 0)

\* Scheduled work counted against MaxInFlight.
Load == BagCardinality(inFlight) + Outstanding

\* ------------------------------------------------------------ StateManager
\* setState(newState): assigns currentState (logging aside).
SetState(newState) == newState

\* processDone(): pending if the handle batchTimer is truthy, otherwise idle.
ProcessDone(timer) ==
    IF timer.handle # "null" THEN SetState("pending") ELSE SetState("idle")

\* --------------------------------------------------------------- processes
\* An invocation in flight: the procedure, the block it is at, the submodule
\* it is at, whether its superproject pull failed, and whether a change event
\* arrived since it started (kept for pullUpdates only).
CommitProc(pc, i) ==
    [kind |-> "commit", pc |-> pc, i |-> i, superFailed |-> FALSE, changed |-> FALSE]
PullProc(pc, i, failed) ==
    [kind |-> "pull", pc |-> pc, i |-> i, superFailed |-> failed, changed |-> FALSE]

Procs == BagToSet(inFlight)
Replace(p, q) == (inFlight (-) SetToBag({p})) (+) SetToBag({q})
Remove(p) == inFlight (-) SetToBag({p})
Add(q) == inFlight (+) SetToBag({q})

CommitInFlight == \E p \in Procs : p.kind = "commit"
PullInFlight == \E p \in Procs : p.kind = "pull"
\* The invocations in flight after a change event: every pullUpdates is
\* marked as having seen one.
Mark(p) == IF p.kind = "pull" THEN [p EXCEPT !.changed = TRUE] ELSE p
Count(bag, p) == IF p \in DOMAIN bag THEN bag[p] ELSE 0
MarkChanged(bag) ==
    [q \in {Mark(p) : p \in BagToSet(bag)} |->
        Count(bag, q)
        + (IF q.kind = "pull" THEN Count(bag, [q EXCEPT !.changed = FALSE]) ELSE 0)]

NumCommits == BagCardinality([p \in {q \in Procs : q.kind = "commit"} |-> inFlight[p]])

\* What the git calls of a block answered: what status reported as changed
\* ("yes" or "no" for a submodule; "files", "entries", "both" or "no" for the
\* superproject), the current branch that branchLocal reported, and the call
\* that failed.  "unknown" stands for an answer the block did not obtain.
Seen(modified, branch, failing) ==
    [modified |-> modified, branch |-> branch, failing |-> failing]
NothingSeen == Seen("unknown", "unknown", "none")

\* What a callback did: the callback, the submodule it worked on (0: none),
\* the git calls it issued in order, what they answered, and how it left its
\* code.
Op(name, sub, calls, exit, failed, seen) ==
    [op |-> name, sub |-> sub, calls |-> calls, exit |-> exit,
     superFailed |-> failed, seen |-> seen]

Init ==
    /\ currentState = "initializing"
    /\ batchTimer = NullTimer
    /\ detached = EmptyBag
    /\ pullTimer = -1
    /\ inFlight = EmptyBag
    /\ sinceChange = BatchTicks
    /\ burstMoved = TRUE
    /\ burstCycles = 0
    /\ changeSinceCycle = FALSE
    /\ retryDue = FALSE
    /\ pendingChanges = FALSE
    /\ unserved = FALSE
    /\ lastOp = Op("constructor", 0, <<>>, "done", FALSE, NothingSeen)

\* Main: stateManager.init(), then the watcher and the pull interval are set up.
Main ==
    /\ currentState = "initializing"
    /\ currentState' = SetState("idle")
    /\ pullTimer' = PullTicks
    /\ lastOp' = Op("init", 0, <<>>, "done", FALSE, NothingSeen)
    /\ UNCHANGED flagVars
    /\ UNCHANGED <<batchTimer, detached, inFlight, sinceChange, burstMoved,
                   burstCycles, changeSinceCycle, retryDue>>

Started == pullTimer >= 0

\* onChange(event, filePath): setState("pending"); clearTimeout(batchTimer)
\* when the handle is truthy; batchTimer = setTimeout(batchedCommit, ...).
OnChange ==
    /\ Started
    /\ BagCardinality(inFlight) + BagCardinality(detached) < MaxInFlight
    /\ currentState' = SetState("pending")
    /\ batchTimer' = SetTimeout
    /\ sinceChange' = 0
    /\ IF sinceChange >= BatchTicks
       THEN burstMoved' = FALSE /\ burstCycles' = 0
       ELSE UNCHANGED <<burstMoved, burstCycles>>
    /\ changeSinceCycle' = TRUE
    /\ inFlight' = MarkChanged(inFlight)
    /\ retryDue' = FALSE
    /\ lastOp' = Op("onChange", 0, <<>>, "done", FALSE, NothingSeen)
    /\ UNCHANGED <<detached, pullTimer>>
    /\ UNCHANGED flagVars

\* Entry of batchedCommit up to its first await (git submodule status).
BatchedCommitEntry(timeout) ==
    /\ currentState' = SetState("committing")
    /\ inFlight' = Add(CommitProc("submodStatus", 0))
    /\ burstCycles' = IF burstMoved THEN Min(burstCycles + 1, 2) ELSE burstCycles
    /\ changeSinceCycle' = FALSE
    /\ lastOp' = Op("batchedCommit", 0, <<>>, timeout, FALSE, NothingSeen)
    /\ UNCHANGED <<pullTimer, sinceChange, burstMoved, retryDue>>
    /\ UNCHANGED flagVars

\* The Timeout that batchTimer refers to expires.
BatchTimerFires ==
    /\ batchTimer.armed /\ batchTimer.rem = 0
    /\ batchTimer' = SpentTimer
    /\ UNCHANGED detached
    /\ BatchedCommitEntry("batchTimer")

\* A Timeout that batchTimer no longer refers to expires.
DetachedTimerFires ==
    /\ BagIn(0, detached)
    /\ detached' = detached (-) SetToBag({0})
    /\ UNCHANGED batchTimer
    /\ BatchedCommitEntry("detached")

\* The loop as it would be if it left for the superproject before its last
\* folder.
CommitAdvanceSkipsLastFolder(j) ==
    IF j >= NumSubmodules THEN CommitProc("superproject", 0)
                          ELSE CommitProc("submodule", j)

\* The loop of batchedCommit moves on to folder j, or past the last folder to
\* the superproject.
CommitAdvance(j) ==
    IF j > NumSubmodules THEN CommitProc("superproject", 0)
                         ELSE CommitProc("submodule", j)

\* A batchedCommit that ends without reaching Finalize (an exception nothing
\* catches, or the return after a failed superproject commit): the invocation
\* is over and no coordinator variable is touched.  Node reports the uncaught
\* exception as an unhandled rejection; the model follows the daemon for as
\* long as it keeps running.
CommitAbandoned(p) ==
    /\ inFlight' = Remove(p)
    /\ UNCHANGED <<currentState, batchTimer, detached>>

\* git.raw(['submodule', 'status', '--recursive']) returns or throws.
SubmodStatusReturns(p) ==
    /\ p.kind = "commit" /\ p.pc = "submodStatus"
    /\ \E ok \in BOOLEAN :
        IF ok
        THEN /\ lastOp' = Op("submodStatus", 0, <<"submodule status">>, "continue",
                          FALSE, NothingSeen)
             /\ inFlight' = Replace(p, CommitAdvance(1))
             /\ UNCHANGED <<currentState, batchTimer, detached>>
        ELSE /\ lastOp' = Op("submodStatus", 0, <<"submodule status">>, "throw",
                          FALSE, Seen("unknown", "unknown", "submodule status"))
             /\ CommitAbandoned(p)
    /\ UNCHANGED <<pullTimer, sinceChange, burstMoved, burstCycles, changeSinceCycle,
                   retryDue>>
    /\ UNCHANGED flagVars

Run(calls, exit, seen) == [calls |-> calls, exit |-> exit, seen |-> seen]

\* What the repository answers during one iteration of the submodule loop:
\* whether the folder exists, whether status reports modified files, whether
\* the current branch is main, and the first git call that fails, if any.
SubmoduleInputs ==
    [exists : BOOLEAN, modified : BOOLEAN, onMain : BOOLEAN,
     fails : {"none", "status", "branchLocal", "add", "commit", "checkout", "push"}]

\* One iteration of the submodule loop of batchedCommit on those answers:
\* the git calls it issues and whether it goes on or throws.
RunSubmodule(in) ==
    LET modified == IF in.modified THEN "yes" ELSE "no"
        branch == IF in.onMain THEN "main" ELSE "other"
    IN
    IF ~in.exists THEN Run(<<>>, "continue", NothingSeen)
    ELSE IF in.fails = "status"
         THEN Run(<<"status">>, "throw", Seen("unknown", "unknown", "status"))
    ELSE IF in.fails = "branchLocal"
         THEN Run(<<"status", "branchLocal">>, "throw",
                  Seen(modified, "unknown", "branchLocal"))
    ELSE IF ~in.modified
         THEN Run(<<"status", "branchLocal">>, "continue", Seen("no", branch, "none"))
    ELSE IF in.fails = "add"
         THEN Run(<<"status", "branchLocal", "add">>, "throw",
                  Seen("yes", branch, "add"))
    ELSE IF in.fails = "commit"
         THEN Run(<<"status", "branchLocal", "add", "commit">>, "continue",
                  Seen("yes", branch, "commit"))
    ELSE IF ~in.onMain /\ in.fails = "checkout"
         THEN Run(<<"status", "branchLocal", "add", "commit", "checkout">>, "continue",
                  Seen("yes", "other", "checkout"))
    ELSE Run(<<"status", "branchLocal", "add", "commit">>
             \o (IF in.onMain THEN <<>> ELSE <<"checkout">>) \o <<"push">>, "continue",
             Seen("yes", branch, IF in.fails = "push" THEN "push" ELSE "none"))

\* The iterations of the loop body, and one more in which the push is issued
\* although the commit failed (the catch of the commit without its continue).
SubmoduleRunsPushAfterFailedCommit ==
    {RunSubmodule(in) : in \in SubmoduleInputs}
    \cup {Run(<<"status", "branchLocal", "add", "commit", "push">>, "continue",
              Seen("yes", "main", "commit"))}

\* The iterations of the loop body, and one more in which the push is issued
\* although the checkout of main failed.
SubmoduleRunsPushAfterFailedCheckout ==
    {RunSubmodule(in) : in \in SubmoduleInputs}
    \cup {Run(<<"status", "branchLocal", "add", "commit", "checkout", "push">>,
              "continue", Seen("yes", "other", "checkout"))}

SubmoduleRuns == {RunSubmodule(in) : in \in SubmoduleInputs}

\* One iteration of the submodule loop: existsSync, status, branchLocal, add,
\* commit, checkout, push.
SubmoduleIteration(p) ==
    /\ p.kind = "commit" /\ p.pc = "submodule"
    /\ \E r \in SubmoduleRuns :
        /\ lastOp' = Op("submodule", p.i, r.calls, r.exit, FALSE, r.seen)
        /\ IF r.exit = "throw"
           THEN CommitAbandoned(p)
           ELSE /\ inFlight' = Replace(p, CommitAdvance(p.i + 1))
                /\ UNCHANGED <<currentState, batchTimer, detached>>
    /\ UNCHANGED <<pullTimer, sinceChange, burstMoved, burstCycles, changeSinceCycle,
                   retryDue>>
    /\ UNCHANGED flagVars

\* Finalize as it would be if it cancelled the Timeout it forgets
\* (clearTimeout(batchTimer) before batchTimer = null).
FinalizeClearsTimeout ==
    /\ batchTimer' = NullTimer
    /\ detached' = detached
    /\ currentState' = ProcessDone(batchTimer')

\* Finalize: batchTimer = null; stateManager.processDone().  A Timeout that
\* is armed when the handle is overwritten stays armed.
Finalize ==
    /\ batchTimer' = NullTimer
    /\ detached' = IF batchTimer.armed
                   THEN detached (+) SetToBag({batchTimer.rem})
                   ELSE detached
    /\ currentState' = ProcessDone(batchTimer')

\* What the repository answers during the superproject part: whether status
\* lists modified files, whether it lists changed submodule entries, whether
\* HEAD is on a branch, and the first git call that fails, if any.
SuperprojectInputs ==
    [files : BOOLEAN, submodules : BOOLEAN, onBranch : BOOLEAN,
     fails : {"none", "status", "add", "commit", "branchLocal", "push"}]

\* The answers of hasChanges when the changed submodule entries are left out.
HasChangesFilesOnly(in) == in.files

\* hasChanges: mainStatus.files or mainStatus.submodules is not empty.
HasChanges(in) == in.files \/ in.submodules

\* The superproject part of batchedCommit on those answers: the git calls it
\* issues and whether it reaches Finalize, returns early or throws.
RunSuperproject(in) ==
    LET modified == IF in.files /\ in.submodules THEN "both"
                    ELSE IF in.files THEN "files"
                    ELSE IF in.submodules THEN "entries" ELSE "no"
    IN
    IF in.fails = "status"
    THEN Run(<<"status">>, "throw", Seen("unknown", "unknown", "status"))
    ELSE IF ~HasChanges(in)
         THEN Run(<<"status">>, "finalize", Seen(modified, "unknown", "none"))
    ELSE IF in.fails = "add"
         THEN Run(<<"status", "add">>, "throw", Seen(modified, "unknown", "add"))
    ELSE IF in.fails = "commit"
         THEN Run(<<"status", "add", "commit">>, "return",
                  Seen(modified, "unknown", "commit"))
    ELSE IF in.fails = "branchLocal"
         THEN Run(<<"status", "add", "commit", "branchLocal">>, "throw",
                  Seen(modified, "unknown", "branchLocal"))
    ELSE IF ~in.onBranch
         THEN Run(<<"status", "add", "commit", "branchLocal">>, "finalize",
                  Seen(modified, "detached", "none"))
    ELSE Run(<<"status", "add", "commit", "branchLocal", "push">>, "finalize",
             Seen(modified, "branch", IF in.fails = "push" THEN "push" ELSE "none"))

\* The superproject parts, and one more in which the push is issued although
\* branchLocal reported no current branch.
SuperprojectRunsPushDetached ==
    {RunSuperproject(in) : in \in SuperprojectInputs}
    \cup {Run(<<"status", "add", "commit", "branchLocal", "push">>, "finalize",
              Seen("files", "detached", "none"))}

SuperprojectRuns == {RunSuperproject(in) : in \in SuperprojectInputs}

\* The superproject part: status, add, commit, branchLocal, push, Finalize.
Superproject(p) ==
    /\ p.kind = "commit" /\ p.pc = "superproject"
    /\ \E r \in SuperprojectRuns :
        /\ lastOp' = Op("superproject", 0, r.calls, r.exit, FALSE, r.seen)
        /\ IF r.exit = "finalize"
           THEN inFlight' = Remove(p) /\ Finalize
           ELSE CommitAbandoned(p)
    /\ UNCHANGED <<pullTimer, sinceChange, burstMoved, burstCycles, changeSinceCycle,
                   retryDue>>
    /\ UNCHANGED flagVars

\* maybePull as it would be if it also pulled while changes are pending.
MaybePullWhilePending ==
    /\ pullTimer = 0
    /\ pullTimer' = PullTicks
    /\ IF currentState \in {"idle", "pending"}
       THEN /\ Load < MaxInFlight
            /\ currentState' = SetState("pulling")
            /\ inFlight' = Add(PullProc("superPull", 0, FALSE))
            /\ lastOp' = Op("maybePull", 0, <<>>, "pulling", FALSE, NothingSeen)
       ELSE /\ lastOp' = Op("maybePull", 0, <<>>, "skipped", FALSE, NothingSeen)
            /\ UNCHANGED <<currentState, inFlight>>
    /\ retryDue' = FALSE
    /\ UNCHANGED <<batchTimer, detached, sinceChange, burstMoved, burstCycles,
                   changeSinceCycle>>
    /\ UNCHANGED flagVars

\* maybePull(): the callback of the pull interval.
MaybePull ==
    /\ pullTimer = 0
    /\ pullTimer' = PullTicks
    /\ IF currentState = "idle"
       THEN /\ Load < MaxInFlight
            /\ currentState' = SetState("pulling")
            /\ inFlight' = Add(PullProc("superPull", 0, FALSE))
            /\ lastOp' = Op("maybePull", 0, <<>>, "pulling", FALSE, NothingSeen)
       ELSE /\ lastOp' = Op("maybePull", 0, <<>>, "skipped", FALSE, NothingSeen)
            /\ UNCHANGED <<currentState, inFlight>>
    /\ retryDue' = FALSE
    /\ UNCHANGED <<batchTimer, detached, sinceChange, burstMoved, burstCycles,
                   changeSinceCycle>>
    /\ UNCHANGED flagVars

\* The handlers maybePull attaches to the promise of pullUpdates.
PullResolved == SetState("idle")
PullRejected == SetState("error")

\* pullUpdates moves on to submodule j; past the last one it calls
\* processDone() and returns, and the then-handler of maybePull runs.
PullContinue(p, j, failed, name, r) ==
    IF j > NumSubmodules
    THEN /\ inFlight' = Remove(p)
         /\ currentState' = (LET done == ProcessDone(batchTimer) IN PullResolved)
         /\ retryDue' = IF failed /\ ~p.changed THEN TRUE ELSE retryDue
         /\ lastOp' = Op(name, p.i, r.calls, "resolved", failed, r.seen)
    ELSE /\ inFlight' = Replace(p, [PullProc("submodule", j, failed)
                                      EXCEPT !.changed = p.changed])
         /\ lastOp' = Op(name, p.i, r.calls, "continue", failed, r.seen)
         /\ UNCHANGED <<currentState, retryDue>>

\* git.pull('origin', 'main') of the superproject returns or throws; the
\* exception is caught and logged.
SuperPullReturns(p) ==
    /\ p.kind = "pull" /\ p.pc = "superPull"
    /\ \E ok \in BOOLEAN :
        PullContinue(p, 1, ~ok, "superPull",
                     Run(<<"pull">>, "continue",
                         Seen("unknown", "unknown", IF ok THEN "none" ELSE "pull")))
    /\ UNCHANGED <<batchTimer, detached, pullTimer, sinceChange, burstMoved,
                   burstCycles, changeSinceCycle>>
    /\ UNCHANGED flagVars

\* What a submodule answers during one iteration of the loop of pullUpdates.
SubmodulePullInputs ==
    [onMain : BOOLEAN, fails : {"none", "branchLocal", "pull"}]

\* The git calls one iteration of the loop of pullUpdates issues; every
\* exception is caught inside the iteration.
RunSubmodulePull(in) ==
    IF in.fails = "branchLocal"
    THEN Run(<<"branchLocal">>, "continue", Seen("unknown", "unknown", "branchLocal"))
    ELSE IF ~in.onMain
         THEN Run(<<"branchLocal">>, "continue", Seen("unknown", "other", "none"))
    ELSE Run(<<"branchLocal", "pull">>, "continue",
             Seen("unknown", "main", IF in.fails = "pull" THEN "pull" ELSE "none"))

\* The iterations of the loop of pullUpdates, and one more in which the pull
\* is issued although the current branch is not main.
SubmodulePullRunsOnAnyBranch ==
    {RunSubmodulePull(in) : in \in SubmodulePullInputs}
    \cup {Run(<<"branchLocal", "pull">>, "continue", Seen("unknown", "other", "none"))}

SubmodulePullRuns == {RunSubmodulePull(in) : in \in SubmodulePullInputs}

\* One iteration of the submodule loop of pullUpdates: branchLocal, pull.
SubmodulePull(p) ==
    /\ p.kind = "pull" /\ p.pc = "submodule"
    /\ \E r \in SubmodulePullRuns :
        PullContinue(p, p.i + 1, p.superFailed, "submodulePull", r)
    /\ UNCHANGED <<batchTimer, detached, pullTimer, sinceChange, burstMoved,
                   burstCycles, changeSinceCycle>>
    /\ UNCHANGED flagVars

\* Every armed Timeout is one tick closer to its deadline.
Elapse(timers) == [r \in {x - 1 : x \in DOMAIN timers} |-> timers[r + 1]]

\* The clock advances by one tick; a Timeout or interval that is due runs first.
Tick ==
    /\ Started
    /\ pullTimer > 0
    /\ ~(batchTimer.armed /\ batchTimer.rem = 0)
    /\ ~BagIn(0, detached)
    /\ pullTimer' = pullTimer - 1
    /\ batchTimer' = IF batchTimer.armed
                     THEN [batchTimer EXCEPT !.rem = @ - 1] ELSE batchTimer
    /\ detached' = Elapse(detached)
    /\ sinceChange' = Min(sinceChange + 1, BatchTicks)
    /\ burstMoved' = TRUE
    /\ lastOp' = Op("tick", 0, <<>>, "done", FALSE, NothingSeen)
    /\ UNCHANGED <<currentState, inFlight, burstCycles, changeSinceCycle, retryDue>>
    /\ UNCHANGED flagVars

Next ==
    \/ Main
    \/ OnChange
    \/ BatchTimerFires
    \/ DetachedTimerFires
    \/ \E p \in Procs : SubmodStatusReturns(p)
    \/ \E p \in Procs : SubmoduleIteration(p)
    \/ \E p \in Procs : Superproject(p)
    \/ MaybePull
    \/ \E p \in Procs : SuperPullReturns(p)
    \/ \E p \in Procs : SubmodulePull(p)
    \/ Tick

Spec == Init /\ [][Next]_vars

\* The callbacks run whenever they are due: Node's event loop serves every
\* expired Timeout, every interval and every settled git call, and the clock
\* advances.  The change notifier is under no such obligation.
Fairness ==
    /\ WF_vars(Main)
    /\ WF_vars(Tick)
    /\ WF_vars(BatchTimerFires)
    /\ WF_vars(DetachedTimerFires)
    /\ WF_vars(MaybePull)
    /\ WF_vars(\E p \in Procs : SubmodStatusReturns(p))
    /\ WF_vars(\E p \in Procs : SubmoduleIteration(p))
    /\ WF_vars(\E p \in Procs : Superproject(p))
    /\ WF_vars(\E p \in Procs : SuperPullReturns(p))
    /\ WF_vars(\E p \in Procs : SubmodulePull(p))

FairSpec == Spec /\ Fairness

\* ------------------------------------------- variant src/unnamed/part_000
\* The variant keeps no coordinator state and pulls nothing: onChange sets
\* the flag pendingChanges and re-arms batchTimer, batchedCommit returns at
\* once when the flag is not set, and Finalize resets the flag and the
\* handle.  The submodule loop of its batchedCommit is that of src/index.js.

\* BATCH_INTERVAL_MS of the variant (.25 * 60 * 1000).
FLAG_BATCH_INTERVAL_MS == 15000
FlagTickMs == FLAG_BATCH_INTERVAL_MS \div 2
FlagBatchTicks == FLAG_BATCH_INTERVAL_MS \div FlagTickMs
FlagSetTimeout == [handle |-> "timeout", armed |-> TRUE, rem |-> FlagBatchTicks]

\* The variables of the coordinator that the variant never assigns.
coordinatorVars ==
    <<currentState, pullTimer, sinceChange, burstMoved, burstCycles,
      changeSinceCycle, retryDue>>

FlagInit ==
    /\ currentState = "idle"
    /\ batchTimer = NullTimer
    /\ detached = EmptyBag
    /\ pullTimer = -1
    /\ inFlight = EmptyBag
    /\ sinceChange = BatchTicks
    /\ burstMoved = TRUE
    /\ burstCycles = 0
    /\ changeSinceCycle = FALSE
    /\ retryDue = FALSE
    /\ pendingChanges = FALSE
    /\ unserved = FALSE
    /\ lastOp = Op("constructor", 0, <<>>, "done", FALSE, NothingSeen)

\* The main function: verifyRepo, the stats file, then the watcher is set up.
FlagMain ==
    /\ lastOp.op = "constructor"
    /\ lastOp' = Op("main", 0, <<>>, "done", FALSE, NothingSeen)
    /\ UNCHANGED <<batchTimer, detached, inFlight, flagVars, coordinatorVars>>

FlagStarted == lastOp.op # "constructor"

\* onChange(event, filePath): pendingChanges = true; clearTimeout(batchTimer)
\* when the handle is truthy; batchTimer = setTimeout(batchedCommit, ...).
FlagOnChange ==
    /\ FlagStarted
    /\ BagCardinality(inFlight) + BagCardinality(detached) < MaxInFlight
    /\ pendingChanges' = TRUE
    /\ batchTimer' = FlagSetTimeout
    /\ unserved' = (unserved \/ CommitInFlight)
    /\ lastOp' = Op("onChange", 0, <<>>, "done", FALSE, NothingSeen)
    /\ UNCHANGED <<detached, inFlight, coordinatorVars>>

\* Entry of batchedCommit: `if (!pendingChanges) return;`, then up to the
\* first await (git submodule status).
FlagBatchedCommitEntry(timeout) ==
    /\ IF ~pendingChanges
       THEN /\ lastOp' = Op("batchedCommit", 0, <<>>, "return", FALSE, NothingSeen)
            /\ UNCHANGED <<inFlight, unserved>>
       ELSE /\ inFlight' = Add(CommitProc("submodStatus", 0))
            /\ unserved' = FALSE
            /\ lastOp' = Op("batchedCommit", 0, <<>>, timeout, FALSE, NothingSeen)
    /\ UNCHANGED <<pendingChanges, coordinatorVars>>

\* The Timeout that batchTimer refers to expires.
FlagBatchTimerFires ==
    /\ batchTimer.armed /\ batchTimer.rem = 0
    /\ batchTimer' = SpentTimer
    /\ UNCHANGED detached
    /\ FlagBatchedCommitEntry("batchTimer")

\* A Timeout that batchTimer no longer refers to expires.
FlagDetachedTimerFires ==
    /\ BagIn(0, detached)
    /\ detached' = detached (-) SetToBag({0})
    /\ UNCHANGED batchTimer
    /\ FlagBatchedCommitEntry("detached")

\* Finalize: pendingChanges = false; batchTimer = null.  A Timeout that is
\* armed when the handle is overwritten stays armed.
FlagFinalize ==
    /\ pendingChanges' = FALSE
    /\ batchTimer' = NullTimer
    /\ detached' = IF batchTimer.armed
                   THEN detached (+) SetToBag({batchTimer.rem})
                   ELSE detached

\* The superproject part of batchedCommit, then Finalize.
FlagSuperproject(p) ==
    /\ p.kind = "commit" /\ p.pc = "superproject"
    /\ \E r \in SuperprojectRuns :
        /\ lastOp' = Op("superproject", 0, r.calls, r.exit, FALSE, r.seen)
        /\ IF r.exit = "finalize"
           THEN inFlight' = Remove(p) /\ FlagFinalize /\ UNCHANGED currentState
           ELSE CommitAbandoned(p) /\ UNCHANGED pendingChanges
    /\ UNCHANGED <<unserved, pullTimer, sinceChange, burstMoved, burstCycles,
                   changeSinceCycle, retryDue>>

\* The clock advances by one tick; a Timeout that is due runs first.
FlagTick ==
    /\ FlagStarted
    /\ ~(batchTimer.armed /\ batchTimer.rem = 0)
    /\ ~BagIn(0, detached)
    /\ batchTimer' = IF batchTimer.armed
                     THEN [batchTimer EXCEPT !.rem = @ - 1] ELSE batchTimer
    /\ detached' = Elapse(detached)
    /\ lastOp' = Op("tick", 0, <<>>, "done", FALSE, NothingSeen)
    /\ UNCHANGED <<inFlight, flagVars, coordinatorVars>>

FlagNext ==
    \/ FlagMain
    \/ FlagOnChange
    \/ FlagBatchTimerFires
    \/ FlagDetachedTimerFires
    \/ \E p \in Procs : SubmodStatusReturns(p)
    \/ \E p \in Procs : SubmoduleIteration(p)
    \/ \E p \in Procs : FlagSuperproject(p)
    \/ FlagTick

FlagSpec == FlagInit /\ [][FlagNext]_vars

\* Timeouts expire, the clock advances and every git call returns; nothing
\* forces a change event.
FlagFairness ==
    /\ WF_vars(FlagMain)
    /\ WF_vars(FlagTick)
    /\ WF_vars(FlagBatchTimerFires)
    /\ WF_vars(FlagDetachedTimerFires)
    /\ WF_vars(\E p \in Procs : SubmodStatusReturns(p))
    /\ WF_vars(\E p \in Procs : SubmoduleIteration(p))
    /\ WF_vars(\E p \in Procs : FlagSuperproject(p))

FlagFairSpec == FlagSpec /\ FlagFairness

\* ------------------------------------------------------------------ claims

\* C1: a Pull Cycle and a Commit/Push Cycle are never in flight at the same
\* time.
C1_PullCommitExclusive == ~(CommitInFlight /\ PullInFlight)

\* C2: at most one Commit/Push Cycle is in flight at any time.
C2_SingleCommitCycle == NumCommits <= 1

\* C3: a burst of change events, each less than BATCH_INTERVAL after the
\* previous one, starts one Commit/Push Cycle and no second one.
C3_OneCyclePerBurst == burstCycles <= 1

\* C4: whenever a Commit/Push Cycle starts, at least BATCH_INTERVAL has
\* elapsed since the most recent change event.
C4_CycleStartsAfterQuietInterval ==
    lastOp.op = "batchedCommit" => sinceChange >= BatchTicks

\* C5: a pull tick that fires while the state is not idle starts no Pull
\* Cycle, issues no git call and leaves the state, the debounce timer and
\* the invocations in flight unchanged.
C5_SkippedTickChangesNothing ==
    [][(lastOp'.op = "maybePull" /\ currentState # "idle")
        => /\ UNCHANGED <<currentState, batchTimer, detached, inFlight>>
           /\ lastOp'.calls = <<>>
           /\ lastOp'.exit = "skipped"]_vars

\* C5 witness: a pull tick was skipped while a Commit/Push Cycle was in
\* flight and the state was committing.
C5_Witness ==
    /\ lastOp.op = "maybePull" /\ lastOp.exit = "skipped"
    /\ currentState = "committing"
    /\ CommitInFlight

\* C6 as stated: after every change event a Commit/Push Cycle eventually
\* starts.
C6_EveryChangeLeadsToCycle == changeSinceCycle ~> ~changeSinceCycle

\* C6 amended: after every change event a Commit/Push Cycle eventually
\* starts, provided change events eventually stop arriving.
C6_ChangeLeadsToCycleOnceQuiet ==
    <>[][~OnChange]_vars => (changeSinceCycle ~> ~changeSinceCycle)

\* C6 witness: a cycle was started by a Timeout armed while an earlier cycle
\* was in flight, and no change event is waiting for a cycle.
C6_Witness ==
    /\ lastOp.op = "batchedCommit" /\ lastOp.exit = "detached"
    /\ ~changeSinceCycle

\* A batchedCommit has just run Finalize / has just ended in any way.
CycleCompleted == lastOp.op = "superproject" /\ lastOp.exit = "finalize"
CycleEnded ==
    /\ lastOp.op \in {"submodStatus", "submodule", "superproject"}
    /\ lastOp.exit \in {"finalize", "return", "throw"}

\* C7: when a Commit/Push Cycle completes and a change event arrived while it
\* was in flight, the state is pending and a debounce timer is armed; when
\* none arrived, the state is idle.
C7_CompletionReentersPending ==
    CycleCompleted =>
        /\ changeSinceCycle => (currentState = "pending" /\ batchTimer.armed)
        /\ (~changeSinceCycle /\ ~CommitInFlight /\ ~PullInFlight)
              => currentState = "idle"

\* C8: once a Commit/Push Cycle has ended (returned or thrown) and no other
\* cycle is in flight, the state is idle or pending, whichever git call
\* failed.
C8_EndedCycleLeavesCommitting ==
    (CycleEnded /\ ~CommitInFlight /\ ~PullInFlight)
        => currentState \in {"idle", "pending"}

\* C9: when a Pull Cycle in which the superproject pull failed completes,
\* the state is error.
C9_FailedSuperPullGivesError ==
    (lastOp.exit = "resolved" /\ lastOp.superFailed) => currentState = "error"

\* C10 starts from the state error.  No run reaches it: every exception of
\* pullUpdates is caught inside it, so the catch handler of maybePull
\* (PullRejected), the only writer of error, never runs.
ErrorNeverEntered == currentState # "error"

\* The git call was issued by the block that ran last.
Issued(call) == \E k \in 1..Len(lastOp.calls) : lastOp.calls[k] = call

\* The batchedCommit whose loop body ran last is in flight at the folder after
\* the one it worked on, or at the superproject after the last folder.
CycleGoesOn == CommitAdvance(lastOp.sub + 1) \in Procs

\* A block of batchedCommit none of whose git calls failed hands over to the
\* next one, and the superproject block to Finalize.
UnfailedBlockHandsOver ==
    /\ (lastOp.op = "submodule" /\ lastOp.seen.failing = "none") => CycleGoesOn
    /\ (lastOp.op = "superproject" /\ lastOp.seen.failing = "none")
          => (lastOp.exit = "finalize" /\ batchTimer = NullTimer)

\* C11: when a git call on a submodule fails (status, branch query, stage,
\* commit, checkout or push), the cycle goes on with the submodules after it
\* and the superproject.
C11_FailureStaysInSubmodule ==
    (lastOp.op = "submodule" /\ lastOp.seen.failing # "none")
        => (lastOp.exit = "continue" /\ CycleGoesOn)

\* C12: when the commit of a submodule fails, neither checkout nor push is
\* issued for that submodule and the cycle goes on with the next submodule or
\* the superproject; the blocks after it, when their own calls succeed, hand
\* over down to Finalize, so the cycle completes.
C12_CommitFailureSkipsCheckoutAndPush ==
    /\ (lastOp.op = "submodule" /\ lastOp.seen.failing = "commit")
          => (~Issued("checkout") /\ ~Issued("push") /\ CycleGoesOn)
    /\ UnfailedBlockHandsOver

\* C12 witness: the commit of the first submodule failed and the cycle is at
\* the second submodule.
C12_Witness ==
    /\ lastOp.op = "submodule" /\ lastOp.sub = 1
    /\ lastOp.seen.failing = "commit"
    /\ Issued("commit")
    /\ CommitProc("submodule", 2) \in Procs

\* The block that ran last issued the git call a before the git call b.
IssuedBefore(a, b) ==
    \E j, k \in 1..Len(lastOp.calls) :
        j < k /\ lastOp.calls[j] = a /\ lastOp.calls[k] = b

\* C13: for a modified submodule that is not on main and whose commit
\* succeeded, checkout is issued after the commit and before any push; when
\* the checkout fails no push is issued and the cycle goes on with the next
\* submodule or the superproject, and from there to Finalize when the later
\* calls succeed; a push is issued only when the branch is main or the
\* checkout of main succeeded.
C13_CheckoutBeforePush ==
    /\ (/\ lastOp.op = "submodule"
        /\ lastOp.seen.modified = "yes" /\ lastOp.seen.branch = "other"
        /\ lastOp.seen.failing \notin {"add", "commit"})
          => /\ IssuedBefore("commit", "checkout")
             /\ Issued("push") => IssuedBefore("checkout", "push")
    /\ (lastOp.op = "submodule" /\ lastOp.seen.failing = "checkout")
          => (~Issued("push") /\ CycleGoesOn)
    /\ (lastOp.op = "submodule" /\ Issued("push"))
          => \/ lastOp.seen.branch = "main"
             \/ Issued("checkout") /\ lastOp.seen.failing # "checkout"
    /\ UnfailedBlockHandsOver

\* C13 witness: the checkout of main failed for the first submodule, which
\* was modified and on another branch, and the cycle is at the second
\* submodule.
C13_Witness ==
    /\ lastOp.op = "submodule" /\ lastOp.sub = 1
    /\ lastOp.seen.branch = "other" /\ lastOp.seen.failing = "checkout"
    /\ IssuedBefore("commit", "checkout")
    /\ CommitProc("submodule", 2) \in Procs

\* C14: add, commit, checkout and push are issued for a submodule only when
\* its status lists a modified file, and none of them when it lists none; the
\* superproject is staged and committed when its status lists modified files
\* or changed submodule entries (and staging did not throw).
C14_OnlyModifiedTreesAreCommitted ==
    /\ (/\ lastOp.op = "submodule"
        /\ \E call \in {"add", "commit", "checkout", "push"} : Issued(call))
          => lastOp.seen.modified = "yes"
    /\ (lastOp.op = "submodule" /\ lastOp.seen.modified = "no")
          => \A call \in {"add", "commit", "checkout", "push"} : ~Issued(call)
    /\ (/\ lastOp.op = "superproject"
        /\ lastOp.seen.modified \in {"files", "entries", "both"})
          => /\ Issued("add")
             /\ lastOp.seen.failing # "add" => Issued("commit")

\* C14 witness: the second submodule had no modification, got neither add nor
\* commit, and the cycle is at the superproject.
C14_Witness ==
    /\ lastOp.op = "submodule" /\ lastOp.sub = 2
    /\ lastOp.seen.modified = "no"
    /\ lastOp.calls = <<"status", "branchLocal">>
    /\ CommitProc("superproject", 0) \in Procs

\* C15: in every state from construction onward, currentState is one of
\* idle, pending, committing, pulling, blocked, error.
C15_StateIsOneOfSix == currentState \in States

\* C16: the state becomes pending only by a change event and only from idle
\* (or stays pending on a change event); no change event arrives at pending
\* from committing, pulling, blocked or error, and no completion handler
\* moves the state to pending.
C16_PendingOnlyFromIdleByChange ==
    [][/\ (currentState' = "pending" /\ currentState # "pending")
            => (lastOp'.op = "onChange" /\ currentState = "idle")
       /\ (lastOp'.op = "onChange" /\ currentState' = "pending")
            => currentState \in {"idle", "pending"}]_vars

\* C17: the state becomes pulling only from idle, and leaves pulling only
\* for idle or error, whatever change events arrive during the Pull Cycle.
C17_PullingOnlyBetweenIdles ==
    [][/\ (currentState' = "pulling" /\ currentState # "pulling")
            => currentState = "idle"
       /\ (currentState = "pulling" /\ currentState' # "pulling")
            => currentState' \in {"idle", "error"}]_vars

\* C18: at every moment at most one debounce Timeout is armed and not yet
\* expired.
C18_AtMostOneTimerOutstanding == Outstanding <= 1

\* C19: when a Pull Cycle completes (pullUpdates has called processDone and
\* the then-handler of maybePull has run) and a change event arrived while it
\* was in flight, the state is pending.
C19_PullCompletionKeepsPending ==
    [][\A p \in Procs :
          (/\ p.kind = "pull" /\ p.changed
           /\ lastOp'.exit = "resolved" /\ inFlight' = Remove(p))
             => currentState' = "pending"]_vars

\* C20: after a Pull Cycle whose superproject pull failed, with no change
\* event since that cycle started, the next pull tick starts a Pull Cycle.
C20_FailedPullRetriedAtNextTick ==
    [][(lastOp'.op = "maybePull" /\ retryDue) => lastOp'.exit = "pulling"]_vars

\* The pullUpdates whose loop body ran last is in flight at the submodule
\* after the one it worked on, or has completed after the last submodule.
PullGoesOn ==
    IF lastOp.sub < NumSubmodules
    THEN /\ lastOp.exit = "continue"
         /\ \E p \in Procs :
               p.kind = "pull" /\ p.pc = "submodule" /\ p.i = lastOp.sub + 1
    ELSE lastOp.exit = "resolved"

\* C21: in a Pull Cycle a pull is issued for a submodule only when
\* branchLocal reported main; on another branch (or none) no pull is issued;
\* and whatever fails in one iteration, the loop moves on to the next
\* submodule, or past the last one to the end of the cycle.
C21_SubmodulePullOnlyOnMain ==
    lastOp.op = "submodulePull"
        => /\ Issued("pull") => lastOp.seen.branch = "main"
           /\ lastOp.seen.branch = "other" => ~Issued("pull")
           /\ PullGoesOn

\* C21 witness: the pull of the first submodule failed and the Pull Cycle is
\* at the second submodule.
C21_Witness ==
    /\ lastOp.op = "submodulePull" /\ lastOp.sub = 1
    /\ lastOp.seen.branch = "main" /\ lastOp.seen.failing = "pull"
    /\ \E p \in Procs : p.kind = "pull" /\ p.pc = "submodule" /\ p.i = 2

\* C22: when the superproject has changes and branchLocal reports no current
\* branch (detached HEAD), the cycle commits the superproject, issues no
\* push, and runs Finalize like a cycle without failure: the handle is null
\* and the state is idle or pending.
C22_DetachedHeadSkipsPush ==
    (lastOp.op = "superproject" /\ lastOp.seen.branch = "detached")
        => /\ Issued("commit") /\ ~Issued("push")
           /\ lastOp.exit = "finalize"
           /\ batchTimer = NullTimer
           /\ currentState \in {"idle", "pending"}

\* C22 witness: a cycle with a detached superproject has run Finalize and the
\* state is idle.
C22_Witness ==
    /\ lastOp.op = "superproject" /\ lastOp.seen.branch = "detached"
    /\ lastOp.seen.modified = "entries"
    /\ lastOp.calls = <<"status", "add", "commit", "branchLocal">>
    /\ currentState = "idle"

\* C23: whenever maybePull starts a Pull Cycle, no debounce Timeout is armed
\* and no change event has occurred since the start of the last Commit/Push
\* Cycle.
C23_NoPullWhileChangesPending ==
    (lastOp.op = "maybePull" /\ lastOp.exit = "pulling")
        => (Outstanding = 0 /\ ~changeSinceCycle)

\* C24: whenever a debounce Timeout fires and batchedCommit starts, the state
\* is pending: committing is entered from pending only.
C24_CommittingOnlyFromPending ==
    [][lastOp'.op = "batchedCommit" => currentState = "pending"]_vars

\* C25: in the variant with the pendingChanges flag, once change events stop
\* arriving, a change event that arrived while batchedCommit was in flight
\* is followed by an invocation of batchedCommit that passes the
\* pendingChanges guard and runs the commit procedure.
C25_ChangeDuringCycleIsCommitted ==
    <>[][~FlagOnChange]_vars => (unserved ~> ~unserved)

\* C26: within a Commit/Push Cycle the folders are taken in order and the
\* superproject part (status, add, commit) starts only after the iteration
\* of the last submodule; the superproject part is the last block of its
\* invocation, so no submodule operation of the cycle follows it.
C26_SuperprojectAfterAllSubmodules ==
    [][/\ \A j \in 1..NumSubmodules :
            Count(inFlight', CommitProc("submodule", j))
                > Count(inFlight, CommitProc("submodule", j))
            => IF j = 1 THEN lastOp'.op = "submodStatus"
                        ELSE lastOp'.op = "submodule" /\ lastOp'.sub = j - 1
       /\ Count(inFlight', CommitProc("superproject", 0))
              > Count(inFlight, CommitProc("superproject", 0))
            => lastOp'.op = "submodule" /\ lastOp'.sub = NumSubmodules
       /\ lastOp'.op = "superproject"
            => /\ CommitProc("superproject", 0) \in Procs
               /\ inFlight' = Remove(CommitProc("superproject", 0))]_vars

\* C26 witness: a superproject part staged and committed, and no other
\* batchedCommit is in flight.
C26_Witness ==
    /\ lastOp.op = "superproject"
    /\ IssuedBefore("status", "add") /\ IssuedBefore("add", "commit")
    /\ ~CommitInFlight

\* C27: the handle batchTimer is non-null exactly when a debounce Timeout is
\* armed and not yet expired.
C27_HandleTracksTimer == (batchTimer.handle # "null") <=> (Outstanding > 0)
====
